---- MODULE Spec2Model ----
(***************************************************************************)
(* Model of scripts/generate_mock_data.py: the mock-data generator of the  *)
(* reconciliation engine.  main() stores NUM_TRANSACTIONS system           *)
(* transactions in PostgreSQL and then writes one CSV file per bank.       *)
(*                                                                         *)
(* Strings the program formats or that a reader of the CSV parses          *)
(* (transaction ids, amounts, dates) are sequences of one-character        *)
(* strings, built the way the f-strings and strftime build them.           *)
(* Amounts are integers in cents; the offset of an amount discrepancy and  *)
(* the sum it is added to are in mills (tenths of a cent).  A transaction  *)
(* time is the number of seconds after 2024-01-01 00:00:00.                *)
(***************************************************************************)
EXTENDS Integers, Sequences, FiniteSets, TLC

\* ------------------------------------------------------------------ bounds

\* Largest NUM_TRANSACTIONS a run is configured with.
MaxTransactions == 2

\* Largest NUM_BANK_FILES (length of BANKS) a run is configured with.
MaxSources == 2

\* ROWS_PER_BANK ranges over 0..MaxRows and over the first MaxUnmatched
\* values that yield one more unmatched row (20, 40, ...).
MaxRows == 2

MaxUnmatched == 1

\* In SpecUnmatched ROWS_PER_BANK ranges over all of 0..MaxRowsUnmatched.
MaxRowsUnmatched == 41

\* random.random() returns k / RandRes for k in 0..RandRes-1, and ERROR_RATE
\* is k / RandRes for k in 0..RandRes.
RandRes == 2

\* Number of calls of create_postgres_transactions() in SpecRerun.
MaxRuns == 2

\* ------------------------------------------------------- program constants

\* int(ROWS_PER_BANK * 0.05): the fraction of unmatched rows, in percent.
UnmatchedPercent == 5

\* The column width of the sequence number of a transaction id.
IdWidth == 8

\* The column width of the sequence number of an unmatched row's id.
FakeIdWidth == 6

\* generate_random_amount(): between 10.00 and 10000.00, in cents.
MinAmount == 1000

MaxAmount == 1000000

\* random.uniform(-100, 100), in mills.
MaxOffset == 100000

\* datetime(2024, 1, 1) .. datetime(2024, 12, 31): the window's year and its
\* length in days (2024-12-31 00:00:00 is day 365 of the window).
WindowYear == 2024

WindowDays == 365

SecondsPerDay == 86400

TYPES == {"DEBIT", "CREDIT"}

\* ------------------------------------------------------------ text helpers

Digits == <<"0", "1", "2", "3", "4", "5", "6", "7", "8", "9">>

IsDigit(c) == \E d \in 1..10 : Digits[d] = c

DigitVal(c) == (CHOOSE d \in 1..10 : Digits[d] = c) - 1

\* format(n, "d") of n >= 0
RECURSIVE Dec(_)
Dec(n) ==
    IF n < 10 THEN <<Digits[n + 1]>>
    ELSE Dec(n \div 10) \o <<Digits[(n % 10) + 1]>>

\* f"{n:0{w}d}" of n >= 0: zero-padded to at least w columns
ZeroPad(n, w) ==
    LET d == Dec(n)
    IN  IF Len(d) >= w THEN d ELSE [i \in 1..(w - Len(d)) |-> "0"] \o d

\* int(s) of a sequence of digits
RECURSIVE DigitsVal(_)
DigitsVal(s) ==
    IF s = <<>> THEN 0
    ELSE 10 * DigitsVal(SubSeq(s, 1, Len(s) - 1)) + DigitVal(s[Len(s)])

AllDigits(s) == \A i \in 1..Len(s) : IsDigit(s[i])

HasPrefix(s, p) == Len(s) >= Len(p) /\ SubSeq(s, 1, Len(p)) = p

\* str.upper() on the letters bank names are made of
Upper(s) ==
    [i \in 1..Len(s) |->
        CASE s[i] = "a" -> "A" [] s[i] = "b" -> "B" [] s[i] = "c" -> "C"
          [] s[i] = "k" -> "K" [] s[i] = "n" -> "N" [] OTHER -> s[i]]

\* ----------------------------------------------------------------- ids

TrxPrefix == <<"T", "R", "X">>

\* generate_transaction_id(index): f"TRX{index:08d}"
generate_transaction_id(index) == TrxPrefix \o ZeroPad(index, IdWidth)

\* BANKS: "bank_bca", and for a configuration with more bank files
\* "bank_2", "bank_3", ...
BankName(b) ==
    IF b = 1 THEN <<"b", "a", "n", "k", "_", "b", "c", "a">>
    ELSE <<"b", "a", "n", "k", "_">> \o Dec(b)

\* f"BANK_{bank_name.upper()}_{i:06d}"
FakeTrxId(b, i) ==
    <<"B", "A", "N", "K", "_">> \o Upper(BankName(b)) \o <<"_">>
        \o ZeroPad(i, FakeIdWidth)

\* trx_id LIKE 'TRX%'
LikeTrx(id) == HasPrefix(id, TrxPrefix)

\* -------------------------------------------------------------- amounts

\* f"{x:.2f}" of a value of magnitude mag cents, with a minus sign iff neg
Format2f(neg, mag) ==
    (IF neg THEN <<"-">> ELSE <<>>)
        \o Dec(mag \div 100) \o <<".">> \o ZeroPad(mag % 100, 2)

\* str(amount) of the float round(x, 2), as csv.writer writes a float: the
\* shortest decimal, with at least one fractional digit
ReprAmount(amount) ==
    Dec(amount \div 100) \o <<".">>
        \o (IF amount % 10 = 0 THEN Dec((amount % 100) \div 10)
            ELSE ZeroPad(amount % 100, 2))

\* What a reader of the CSV gets from an amount field: the value in cents of
\* [-]digits[.d[d]], or no value
ParseAmount(s) ==
    LET neg  == Len(s) > 0 /\ s[1] = "-"
        body == IF neg THEN SubSeq(s, 2, Len(s)) ELSE s
        dots == {i \in 1..Len(body) : body[i] = "."}
        dot  == IF dots = {} THEN Len(body) + 1 ELSE CHOOSE i \in dots : TRUE
        ip   == SubSeq(body, 1, dot - 1)
        fp   == SubSeq(body, dot + 1, Len(body))
        ok   == /\ Cardinality(dots) <= 1
                /\ Len(ip) >= 1 /\ AllDigits(ip)
                /\ Len(fp) <= 2 /\ AllDigits(fp)
        frac == IF Len(fp) = 0 THEN 0
                ELSE IF Len(fp) = 1 THEN 10 * DigitsVal(fp)
                ELSE DigitsVal(fp)
        mag  == 100 * DigitsVal(ip) + frac
    IN  IF ok THEN [ok |-> TRUE, cents |-> IF neg THEN -mag ELSE mag]
        ELSE [ok |-> FALSE, cents |-> 0]

\* The sign convention of the bank files: negative for debits
SignedCents(tx_type, amount) == IF tx_type = "DEBIT" THEN -amount ELSE amount

\* ---------------------------------------------------------------- dates

IsLeap(y) == (y % 4 = 0 /\ y % 100 # 0) \/ y % 400 = 0

DaysInMonth(y, m) ==
    IF m = 2 THEN (IF IsLeap(y) THEN 29 ELSE 28)
    ELSE IF m \in {4, 6, 9, 11} THEN 30 ELSE 31

\* The calendar date of day number d (0-based) counted from month m of y
RECURSIVE DateFrom(_, _, _)
DateFrom(y, m, d) ==
    IF d < DaysInMonth(y, m) THEN [year |-> y, month |-> m, day |-> d + 1]
    ELSE IF m = 12 THEN DateFrom(y + 1, 1, d - DaysInMonth(y, m))
    ELSE DateFrom(y, m + 1, d - DaysInMonth(y, m))

\* start_date + timedelta(seconds=random_seconds), as a calendar date
DateOfTime(tx_time) == DateFrom(WindowYear, 1, tx_time \div SecondsPerDay)

\* strftime("%Y-%m-%d")
StrfDate(d) ==
    ZeroPad(d.year, 4) \o <<"-">> \o ZeroPad(d.month, 2) \o <<"-">>
        \o ZeroPad(d.day, 2)

\* YYYY-MM-DD in shape: digits and dashes in the right columns
IsDateShaped(s) ==
    /\ Len(s) = 10
    /\ s[5] = "-" /\ s[8] = "-"
    /\ \A i \in {1, 2, 3, 4, 6, 7, 9, 10} : IsDigit(s[i])

\* What a reader of the CSV gets from a date field: a calendar date, or none
ParseDate(s) ==
    IF ~IsDateShaped(s) THEN [ok |-> FALSE, year |-> 0, month |-> 0, day |-> 0]
    ELSE LET y == DigitsVal(SubSeq(s, 1, 4))
             m == DigitsVal(SubSeq(s, 6, 7))
             d == DigitsVal(SubSeq(s, 9, 10))
         IN  [ok |-> m \in 1..12 /\ d >= 1 /\ d <= DaysInMonth(y, m),
              year |-> y, month |-> m, day |-> d]

\* ----------------------------------------------------------------- rows

\* A system transaction: the tuple (trx_id, amount, tx_type, tx_time)
Transaction(index, amount, tx_type, tx_time) ==
    [trx_id |-> generate_transaction_id(index), amount |-> amount,
     tx_type |-> tx_type, tx_time |-> tx_time]

\* The transaction field of a row that is written from no transaction
NoTx == [trx_id |-> <<>>, amount |-> 0, tx_type |-> "NONE", tx_time |-> 0]

\* A row of a bank file: the three cells writer.writerow() is given, and,
\* for the properties only, the branch that wrote it and the transaction it
\* was written from
Row(ref_id, amount, date, category, tx) ==
    [ref_id |-> ref_id, amount |-> amount, date |-> date,
     category |-> category, tx |-> tx]

HeaderRow ==
    Row(<<"t", "r", "x", "_", "r", "e", "f", "_", "i", "d">>,
        <<"a", "m", "o", "u", "n", "t">>, <<"d", "a", "t", "e">>,
        "HEADER", NoTx)

InvalidAmount ==
    <<"i", "n", "v", "a", "l", "i", "d", "_", "a", "m", "o", "u", "n", "t">>

InvalidDate == <<"2", "0", "2", "4", "-", "1", "3", "-", "4", "5">>

ErrorTypes ==
    {"wrong_format_amount", "wrong_format_date", "missing_field",
     "amount_discrepancy"}

\* tx_datetime.strftime("%Y-%m-%d")
date_str(tx) == StrfDate(DateOfTime(tx.tx_time))

\* Mutant of should_error: <= for <
should_error_le(r, error_rate) == r <= error_rate

\* should_error = random.random() < ERROR_RATE, both in units of 1 / RandRes
should_error(r, error_rate) == r < error_rate

\* Mutant of discrepancy_amount: the offset drawn from [-1000, 1000]
discrepancy_amount_wide(amount, offset) == 10 * amount + 10 * offset

\* amount + random.uniform(-100, 100), in mills
discrepancy_amount(amount, offset) == 10 * amount + offset

\* The cents ".2f" rounds a magnitude in mills to; a value half-way between
\* two cents is a float just below or just above the half (up tells which)
RoundCents(mills, up) ==
    LET q == mills \div 10
        r == mills % 10
    IN  IF r > 5 \/ (r = 5 /\ up) THEN q + 1 ELSE q

\* The row of the else branch: the correct matching transaction
MirrorRow(tx) ==
    Row(tx.trx_id, Format2f(tx.tx_type = "DEBIT", tx.amount), date_str(tx),
        "MATCHED", tx)

\* The row of the amount_discrepancy branch
DiscrepancyRow(tx, offset, up) ==
    LET d    == discrepancy_amount(tx.amount, offset)
        bank == IF tx.tx_type = "DEBIT" THEN -d ELSE d
        \* -0.0 is formatted "-0.00"
        neg  == bank < 0 \/ (bank = 0 /\ tx.tx_type = "DEBIT")
        mag  == RoundCents(IF bank < 0 THEN -bank ELSE bank, up)
    IN  Row(tx.trx_id, Format2f(neg, mag), date_str(tx), "DISCREPANCY", tx)

\* Mutant of DefectRow: the missing_field branch blanks the id, not the amount
DefectRowBlankId(tx, error_type, offset, up) ==
    IF error_type = "missing_field"
    THEN Row(<<>>, Format2f(tx.tx_type = "DEBIT", tx.amount), date_str(tx),
             "MISSING_FIELD", tx)
    ELSE IF error_type = "amount_discrepancy"
    THEN DiscrepancyRow(tx, offset, up)
    ELSE Row(tx.trx_id, InvalidAmount, date_str(tx), "MALFORMED_AMOUNT", tx)

\* The row of the branch of error_type
DefectRow(tx, error_type, offset, up) ==
    CASE error_type = "wrong_format_amount" ->
            Row(tx.trx_id, InvalidAmount, date_str(tx), "MALFORMED_AMOUNT", tx)
      [] error_type = "wrong_format_date" ->
            Row(tx.trx_id, ReprAmount(tx.amount), InvalidDate,
                "MALFORMED_DATE", tx)
      [] error_type = "missing_field" ->
            Row(tx.trx_id, <<>>, date_str(tx), "MISSING_FIELD", tx)
      [] error_type = "amount_discrepancy" ->
            DiscrepancyRow(tx, offset, up)

\* The row written for one transaction of the bank's slice
BankRow(tx, error_rate, r, error_type, offset, up) ==
    IF should_error(r, error_rate) THEN DefectRow(tx, error_type, offset, up)
    ELSE MirrorRow(tx)

\* An unmatched bank transaction
UnmatchedRow(b, i, fake_amount, fake_time) ==
    Row(FakeTrxId(b, i), Format2f(FALSE, fake_amount),
        StrfDate(DateOfTime(fake_time)), "UNMATCHED", NoTx)

\* Mutant of num_unmatched: round() for int()
num_unmatched_round(rows_per_bank) ==
    (rows_per_bank * UnmatchedPercent + 50) \div 100

\* int(ROWS_PER_BANK * 0.05)
num_unmatched(rows_per_bank) == (rows_per_bank * UnmatchedPercent) \div 100

\* ------------------------------------------------------------ partition

Min(a, b) == IF a < b THEN a ELSE b

\* lst[start:end] for 0 <= start, 0 <= end
PySlice(lst, start, end) ==
    SubSeq(lst, Min(start, Len(lst)) + 1, Min(end, Len(lst)))

\* start_idx = bank_index * (len(available_transactions) // NUM_BANK_FILES)
start_idx(avail, bank_idx, num_bank_files) ==
    bank_idx * (Len(avail) \div num_bank_files)

\* bank_transactions = available_transactions[start_idx:end_idx]
bank_transactions(avail, bank_idx, num_bank_files, rows_per_bank) ==
    PySlice(avail, start_idx(avail, bank_idx, num_bank_files),
            start_idx(avail, bank_idx, num_bank_files) + rows_per_bank)

\* The orders random.shuffle() can leave a list in
Shuffles(lst) ==
    {[i \in 1..Len(lst) |-> lst[p[i]]] :
        p \in {q \in [1..Len(lst) -> 1..Len(lst)] :
                  \A i, j \in 1..Len(lst) : i # j => q[i] # q[j]}}

\* ---------------------------------------------------------------- state

VARIABLES
    cfg,            \* NUM_TRANSACTIONS, NUM_BANK_FILES, ROWS_PER_BANK, ERROR_RATE
    random,         \* the values the random module returns in this run
    pc,             \* where main() is
    error,          \* the step whose exception ended the run, or "none"
    exit_code,      \* the exit status of the process, or -1 while it runs
    db,             \* table transactions: the committed rows
    dbTxn,          \* table transactions as the open connection sees it
    transactions,   \* the list create_postgres_transactions() builds
    count,          \* SELECT COUNT(*) ... LIKE 'TRX%', or -1
    available,      \* available_transactions, shuffled
    bank_index,     \* enumerate(BANKS), 0-based
    files,          \* the rows of each bank's CSV file on disk
    fstate,         \* each bank's file: "absent", "open" or "closed"
    pos,            \* iterations of the loop over bank_transactions so far
    rows_written,   \* rows_written
    unmatched_i,    \* i of the loop over range(num_unmatched)
    runs            \* calls of create_postgres_transactions() so far

vars ==
    <<cfg, random, pc, error, exit_code, db, dbTxn, transactions, count,
      available, bank_index, files, fstate, pos, rows_written, unmatched_i,
      runs>>

dbVars == <<db, dbTxn, transactions, count>>

fileVars == <<available, bank_index, files, fstate, pos, rows_written,
              unmatched_i>>

\* A row of the table entered by other means, outside the TRX namespace
ForeignRow ==
    [trx_id |-> <<"M", "A", "N", "1">>, amount |-> MinAmount,
     tx_type |-> "CREDIT", tx_time |-> 0]

\* What the random module can return in a run: the amounts of
\* generate_random_amount(), the kinds of random.choice(TYPES), the seconds
\* of generate_random_datetime(), the error types of random.choice([...]) and
\* the offsets of random.uniform(-100, 100).
\* CoarseRandom: one value each but for the error type, so that the runs of
\* whole configurations stay few.
CoarseRandom ==
    [amounts |-> {MinAmount}, types |-> {"DEBIT"}, seconds |-> {0},
     error_types |-> {"missing_field", "amount_discrepancy"},
     offsets |-> {MaxOffset}]

\* MediumRandom: both kinds and all four error types.
MediumRandom ==
    [amounts |-> {MinAmount}, types |-> TYPES, seconds |-> {0},
     error_types |-> ErrorTypes, offsets |-> {MaxOffset}]

\* FineRandom: the values where formatting, rounding, the sign and the
\* calendar take their different turns.
FineRandom ==
    [amounts |-> {MinAmount, 1005, 10000, 123450, MaxAmount},
     types |-> TYPES,
     seconds |-> {0, 60 * SecondsPerDay - 1, WindowDays * SecondsPerDay},
     error_types |-> ErrorTypes,
     offsets |-> {-MaxOffset, -4, 0, 4, 5, MaxOffset}]

\* ROWS_PER_BANK of the runs of Spec
RowsChoices ==
    (0..MaxRows) \cup {k * (100 \div UnmatchedPercent) : k \in 1..MaxUnmatched}

Configs(rowsChoices, errorRates) ==
    [n : 1..MaxTransactions, ns : 1..MaxSources, rps : rowsChoices,
     err : errorRates]

\* The state main() starts in
InitWith(c, rnd) ==
    /\ cfg = c
    /\ random = rnd
    /\ pc = "connect"
    /\ error = "none"
    /\ exit_code = -1
    /\ db = {ForeignRow}
    /\ dbTxn = {ForeignRow}
    /\ transactions = <<>>
    /\ count = -1
    /\ available = <<>>
    /\ bank_index = 0
    /\ files = [b \in 1..c.ns |-> <<>>]
    /\ fstate = [b \in 1..c.ns |-> "absent"]
    /\ pos = 0
    /\ rows_written = 0
    /\ unmatched_i = 0
    /\ runs = 1

Init == \E c \in Configs(RowsChoices, 0..RandRes) : InitWith(c, CoarseRandom)

\* ------------------------------------------- create_postgres_transactions

DbSteps ==
    {"connect", "clear", "commit_clear", "insert", "commit_insert", "count"}

\* os.makedirs(OUTPUT_DIR, exist_ok=True) makes the directory, no file;
\* conn = get_db_connection(); cursor = conn.cursor()
Connect ==
    /\ pc = "connect"
    /\ pc' = "clear"
    /\ dbTxn' = db
    /\ UNCHANGED <<cfg, random, error, exit_code, db, transactions, count,
                   runs>>
    /\ UNCHANGED fileVars

\* Mutant of DeleteTrx: the DELETE matches no row
DeleteNothing(table) == table

\* DELETE FROM transactions WHERE trx_id LIKE 'TRX%'
DeleteTrx(table) == {row \in table : ~LikeTrx(row.trx_id)}

ClearTransactions ==
    /\ pc = "clear"
    /\ pc' = "commit_clear"
    /\ dbTxn' = DeleteTrx(dbTxn)
    /\ UNCHANGED <<cfg, random, error, exit_code, db, transactions, count,
                   runs>>
    /\ UNCHANGED fileVars

\* Mutant of Commit: the commit is left out
NoCommit(table, txn) == table

\* conn.commit()
Commit(table, txn) == txn

CommitClear ==
    /\ pc = "commit_clear"
    /\ pc' = "generate"
    /\ db' = Commit(db, dbTxn)
    /\ UNCHANGED <<cfg, random, error, exit_code, dbTxn, transactions, count,
                   runs>>
    /\ UNCHANGED fileVars

\* for i in range(1, NUM_TRANSACTIONS + 1): transactions.append(...)
Generated(n, rnd) ==
    {[i \in 1..n |-> Transaction(i, c[i][1], c[i][2], c[i][3])] :
        c \in [1..n -> rnd.amounts \X rnd.types \X rnd.seconds]}

Generate ==
    /\ pc = "generate"
    /\ pc' = "insert"
    /\ transactions' \in Generated(cfg.n, random)
    /\ UNCHANGED <<cfg, random, error, exit_code, db, dbTxn, count, runs>>
    /\ UNCHANGED fileVars

\* INSERT ... ON CONFLICT (trx_id) DO NOTHING, for each of rows in turn
RECURSIVE InsertOnConflictDoNothing(_, _)
InsertOnConflictDoNothing(table, rows) ==
    IF rows = <<>> THEN table
    ELSE LET row == Head(rows)
             t   == IF \E old \in table : old.trx_id = row.trx_id THEN table
                    ELSE table \cup {row}
         IN  InsertOnConflictDoNothing(t, Tail(rows))

\* execute_batch(cursor, insert_query, transactions, page_size=1000)
BulkInsert ==
    /\ pc = "insert"
    /\ pc' = "commit_insert"
    /\ dbTxn' = InsertOnConflictDoNothing(dbTxn, transactions)
    /\ UNCHANGED <<cfg, random, error, exit_code, db, transactions, count,
                   runs>>
    /\ UNCHANGED fileVars

CommitInsert ==
    /\ pc = "commit_insert"
    /\ pc' = "count"
    /\ db' = Commit(db, dbTxn)
    /\ UNCHANGED <<cfg, random, error, exit_code, dbTxn, transactions, count,
                   runs>>
    /\ UNCHANGED fileVars

\* SELECT COUNT(*) FROM transactions WHERE trx_id LIKE 'TRX%'
CountTrx(table) == Cardinality({row \in table : LikeTrx(row.trx_id)})

\* the count query, cursor.close(), conn.close(), return transactions
CountRows ==
    /\ pc = "count"
    /\ pc' = "shuffle"
    /\ count' = CountTrx(dbTxn)
    /\ UNCHANGED <<cfg, random, error, exit_code, db, dbTxn, transactions,
                   runs>>
    /\ UNCHANGED fileVars

\* A psycopg2.Error in any database step: re-raised, caught by main(),
\* exit(1).  What the connection had not committed is lost.
DbFail ==
    /\ pc \in DbSteps
    /\ error' = pc
    /\ pc' = "failed"
    /\ exit_code' = 1
    /\ dbTxn' = db
    /\ UNCHANGED <<cfg, random, db, transactions, count, runs>>
    /\ UNCHANGED fileVars

\* ------------------------------------------------- create_bank_csv_files

FileSteps == {"open", "header", "rows", "unmatched", "close"}

\* bank_transactions of the bank being written
CurrentBankTransactions ==
    bank_transactions(available, bank_index, cfg.ns, cfg.rps)

\* Where the body of the with block is after p iterations of the first loop,
\* rw rows written and i iterations of the second
LoopPc(p, rw, i) ==
    IF p < Len(CurrentBankTransactions)' /\ rw < cfg.rps THEN "rows"
    ELSE IF i < num_unmatched(cfg.rps) THEN "unmatched"
    ELSE "close"

\* available_transactions = system_transactions.copy(); random.shuffle(...)
Shuffle ==
    /\ pc = "shuffle"
    /\ pc' = "open"
    /\ available' \in Shuffles(transactions)
    /\ bank_index' = 0
    /\ UNCHANGED <<cfg, random, error, exit_code, runs, files, fstate, pos,
                   rows_written, unmatched_i>>
    /\ UNCHANGED dbVars

\* with open(csv_file, 'w', newline='') as f: the file is created or emptied
OpenFile ==
    /\ pc = "open"
    /\ bank_index < cfg.ns
    /\ pc' = "header"
    /\ files' = [files EXCEPT ![bank_index + 1] = <<>>]
    /\ fstate' = [fstate EXCEPT ![bank_index + 1] = "open"]
    /\ UNCHANGED <<cfg, random, error, exit_code, runs, available, bank_index,
                   pos, rows_written, unmatched_i>>
    /\ UNCHANGED dbVars

\* writer.writerow(["trx_ref_id", "amount", "date"]); rows_written = 0
WriteHeader ==
    /\ pc = "header"
    /\ files' = [files EXCEPT ![bank_index + 1] = Append(@, HeaderRow)]
    /\ pos' = 0
    /\ rows_written' = 0
    /\ unmatched_i' = 0
    /\ UNCHANGED <<cfg, random, error, exit_code, runs, available, bank_index,
                   fstate>>
    /\ pc' = LoopPc(0, 0, 0)
    /\ UNCHANGED dbVars

\* One iteration of the loop over bank_transactions
WriteRow ==
    /\ pc = "rows"
    /\ \E r \in 0..(RandRes - 1), error_type \in random.error_types,
          offset \in random.offsets, up \in BOOLEAN :
          files' = [files EXCEPT ![bank_index + 1] =
                       Append(@, BankRow(CurrentBankTransactions[pos + 1],
                                         cfg.err, r, error_type, offset, up))]
    /\ pos' = pos + 1
    /\ rows_written' = rows_written + 1
    /\ UNCHANGED <<cfg, random, error, exit_code, runs, available, bank_index,
                   fstate, unmatched_i>>
    /\ pc' = LoopPc(pos + 1, rows_written + 1, unmatched_i)
    /\ UNCHANGED dbVars

\* One iteration of the loop over range(num_unmatched)
WriteUnmatched ==
    /\ pc = "unmatched"
    /\ \E fake_amount \in random.amounts, fake_time \in random.seconds :
          files' = [files EXCEPT ![bank_index + 1] =
                       Append(@, UnmatchedRow(bank_index + 1, unmatched_i,
                                              fake_amount, fake_time))]
    /\ unmatched_i' = unmatched_i + 1
    /\ rows_written' = rows_written + 1
    /\ UNCHANGED <<cfg, random, error, exit_code, runs, available, bank_index,
                   fstate, pos>>
    /\ pc' = LoopPc(pos, rows_written, unmatched_i + 1)
    /\ UNCHANGED dbVars

\* The with block ends: the file is closed, the next bank follows
CloseFile ==
    /\ pc = "close"
    /\ pc' = "open"
    /\ fstate' = [fstate EXCEPT ![bank_index + 1] = "closed"]
    /\ bank_index' = bank_index + 1
    /\ UNCHANGED <<cfg, random, error, exit_code, runs, available, files, pos,
                   rows_written, unmatched_i>>
    /\ UNCHANGED dbVars

\* An OSError in open() or in a write: the with block closes the file as it
\* is, main() catches the exception, exit(1)
FileFail ==
    /\ pc \in FileSteps
    /\ pc = "open" => bank_index < cfg.ns
    /\ error' = pc
    /\ pc' = "failed"
    /\ exit_code' = 1
    /\ fstate' = IF pc = "open" THEN fstate
                 ELSE [fstate EXCEPT ![bank_index + 1] = "closed"]
    /\ UNCHANGED <<cfg, random, runs, available, bank_index, files, pos,
                   rows_written, unmatched_i>>
    /\ UNCHANGED dbVars

\* Every bank is written: main() prints the summary and returns
Finish ==
    /\ pc = "open"
    /\ bank_index = cfg.ns
    /\ pc' = "done"
    /\ exit_code' = 0
    /\ UNCHANGED <<cfg, random, error, runs>>
    /\ UNCHANGED dbVars
    /\ UNCHANGED fileVars

\* ------------------------------------------------------- specifications

\* main(), once
Next ==
    \/ Connect \/ ClearTransactions \/ CommitClear \/ Generate
    \/ BulkInsert \/ CommitInsert \/ CountRows \/ DbFail
    \/ Shuffle \/ OpenFile \/ WriteHeader \/ WriteRow \/ WriteUnmatched
    \/ CloseFile \/ FileFail \/ Finish

Spec == Init /\ [][Next]_vars

\* create_bank_csv_files() at the with block of one bank: the transactions
\* are stored, shuffled, and the file of bank b (0-based) was just opened
InitBankWith(c, rnd) ==
    \E txs \in Generated(c.n, rnd) :
      \E avail \in Shuffles(txs), b \in 0..(c.ns - 1) :
        /\ cfg = c
        /\ random = rnd
        /\ pc = "header"
        /\ error = "none"
        /\ exit_code = -1
        /\ db = {ForeignRow} \cup {txs[i] : i \in 1..Len(txs)}
        /\ dbTxn = db
        /\ transactions = txs
        /\ count = Len(txs)
        /\ available = avail
        /\ bank_index = b
        /\ files = [k \in 1..c.ns |-> <<>>]
        /\ fstate = [k \in 1..c.ns |-> IF k = b + 1 THEN "open" ELSE "absent"]
        /\ pos = 0
        /\ rows_written = 0
        /\ unmatched_i = 0
        /\ runs = 1

\* The body of the with block, for one bank
NextBank == WriteHeader \/ WriteRow \/ WriteUnmatched \/ CloseFile

\* One bank's file, every error type, both kinds
InitBank ==
    \E c \in Configs(RowsChoices, 0..RandRes) : InitBankWith(c, MediumRandom)

SpecBank == InitBank /\ [][NextBank]_vars

\* One bank's file, every ROWS_PER_BANK up to MaxRowsUnmatched
InitUnmatched ==
    \E c \in Configs(0..MaxRowsUnmatched, 0..RandRes) :
        InitBankWith(c, CoarseRandom)

SpecUnmatched == InitUnmatched /\ [][NextBank]_vars

\* The row of one transaction: one transaction, one bank, one row per bank
InitRow ==
    \E err \in 0..RandRes :
        InitBankWith([n |-> 1, ns |-> 1, rps |-> 1, err |-> err], FineRandom)

NextRow == WriteHeader \/ WriteRow \/ CloseFile

SpecRow == InitRow /\ [][NextRow]_vars

\* The generator is started again (python generate_mock_data.py), with the
\* NUM_TRANSACTIONS of that run, after create_postgres_transactions() has
\* returned or failed; the table is the one the earlier runs left
Restart ==
    /\ pc \in {"shuffle", "failed"}
    /\ runs < MaxRuns
    /\ \E n \in 1..MaxTransactions : cfg' = [cfg EXCEPT !.n = n]
    /\ pc' = "connect"
    /\ error' = "none"
    /\ exit_code' = -1
    /\ transactions' = <<>>
    /\ count' = -1
    /\ dbTxn' = db
    /\ runs' = runs + 1
    /\ UNCHANGED <<random, db>>
    /\ UNCHANGED fileVars

NextRerun ==
    \/ Connect \/ ClearTransactions \/ CommitClear \/ Generate
    \/ BulkInsert \/ CommitInsert \/ CountRows \/ DbFail \/ Restart

InitRerun ==
    \E n \in 1..MaxTransactions :
        InitWith([n |-> n, ns |-> 1, rps |-> n, err |-> 0], MediumRandom)

SpecRerun == InitRerun /\ [][NextRerun]_vars

\* ------------------------------------------------------------ properties

Banks == 1..cfg.ns

FilesTouched == \E b \in Banks : fstate[b] # "absent"

\* Every generated transaction is a committed row of the table
InsertCommitted ==
    /\ Len(transactions) = cfg.n
    /\ \A i \in 1..Len(transactions) : transactions[i] \in db

\* The rows of bank b's file written from a transaction of the slice
PartitionRows(b) == SelectSeq(files[b], LAMBDA row : row.tx # NoTx)

UnmatchedRows(b) ==
    SelectSeq(files[b], LAMBDA row : row.category = "UNMATCHED")

\* bank b's slice of the shuffled pool (b is 1-based)
SliceOf(b) == bank_transactions(available, b - 1, cfg.ns, cfg.rps)

\* All rows of all files that were written from a transaction
AllPartitionRows ==
    UNION {{PartitionRows(b)[k] : k \in 1..Len(PartitionRows(b))} : b \in Banks}

Abs(x) == IF x < 0 THEN -x ELSE x

\* C1: No bank file is opened or written before every generated transaction
\* is a committed row of the table; and when a database step (connect, clear,
\* insert, a commit, the count) fails, the run has ended with exit status 1
\* and no bank file exists, then and in every later state.
C1_PersistBeforeFiles ==
    /\ FilesTouched => InsertCommitted /\ error \notin DbSteps
    /\ error \in DbSteps => pc = "failed" /\ exit_code = 1 /\ ~FilesTouched

\* A bank file is open behind a committed insert
C1_Witness == pc = "rows" /\ fstate[1] = "open" /\ InsertCommitted

\* A bank's file holds its header, a row for every transaction of its slice
\* and all its unmatched rows
FileComplete(b) ==
    /\ fstate[b] = "closed"
    /\ Len(files[b]) = 1 + Len(SliceOf(b)) + num_unmatched(cfg.rps)

\* C2: No transaction id is in the files of two different banks, whatever
\* NUM_TRANSACTIONS, NUM_BANK_FILES and ROWS_PER_BANK are.
C2_SlicesDisjoint ==
    \A b1, b2 \in Banks :
        b1 # b2 =>
            \A i \in 1..Len(PartitionRows(b1)), j \in 1..Len(PartitionRows(b2)) :
                PartitionRows(b1)[i].ref_id # PartitionRows(b2)[j].ref_id

\* C3: Every row of the wrong_format_date branch has a date that has the
\* shape of a date and is no calendar date, and an amount that parses to the
\* transaction's amount, negative for a DEBIT and positive for a CREDIT.
C3_MalformedDateRow ==
    \A row \in AllPartitionRows :
        row.category = "MALFORMED_DATE" =>
            /\ IsDateShaped(row.date)
            /\ ~ParseDate(row.date).ok
            /\ ParseAmount(row.amount).ok
            /\ ParseAmount(row.amount).cents
                 = SignedCents(row.tx.tx_type, row.tx.amount)

\* C4: When a run has failed, it has ended with exit status 1 and no bank
\* file is left on disk that lacks rows it should hold.
C4_NoPartialFile ==
    pc = "failed" =>
        /\ exit_code = 1
        /\ \A b \in Banks : fstate[b] = "absent" \/ FileComplete(b)

\* C5: When create_postgres_transactions() has returned, in the first run
\* or in a later one against the table the earlier runs left, the table
\* holds at most NUM_TRANSACTIONS rows of the TRX namespace, one per id, and
\* the count the run reports is that number.
C5_RerunKeepsCount ==
    pc = "shuffle" =>
        /\ CountTrx(db) <= cfg.n
        /\ count = CountTrx(db)
        /\ \A r1, r2 \in db : r1.trx_id = r2.trx_id => r1 = r2

\* A later run with fewer transactions than the table held has returned
C5_Witness ==
    /\ pc = "shuffle"
    /\ runs > 1
    /\ cfg.n < MaxTransactions
    /\ CountTrx(db) = cfg.n

\* C6: In a bank's file the rows after the header are, in order, one row per
\* transaction of the bank's slice, each with the transaction's id as its
\* ref_id whatever branch wrote it; once the loop over the slice is over,
\* every transaction of the slice has its row.
C6_OneRowPerTransaction ==
    \A b \in Banks :
        LET rows  == files[b]
            slice == SliceOf(b)
        IN  /\ \A k \in 1..Len(slice) :
                  k + 1 <= Len(rows) =>
                      /\ rows[k + 1].ref_id = slice[k].trx_id
                      /\ rows[k + 1].tx = slice[k]
                      /\ rows[k + 1].category \in
                            {"MATCHED", "MALFORMED_AMOUNT", "MALFORMED_DATE",
                             "MISSING_FIELD", "DISCREPANCY"}
            /\ Len(PartitionRows(b)) <= Len(slice)
            /\ fstate[b] = "closed" \/ (fstate[b] = "open" /\ pc \in {"unmatched", "close"})
                  => Len(PartitionRows(b)) = Len(slice)

\* A closed file whose slice has two transactions, the second written by the
\* missing_field branch
C6_Witness ==
    \E b \in Banks :
        /\ fstate[b] = "closed"
        /\ Len(SliceOf(b)) >= 2
        /\ files[b][3].category = "MISSING_FIELD"
        /\ files[b][3].ref_id = SliceOf(b)[2].trx_id

\* C7: A closed bank file holds exactly floor(ROWS_PER_BANK * 5 / 100)
\* unmatched rows, whatever the number of rows of its slice, and no unmatched
\* row's ref_id is the id of a system transaction.
C7_UnmatchedRows ==
    \A b \in Banks :
        /\ fstate[b] = "closed" =>
              \E k \in 0..cfg.rps :
                  /\ Len(UnmatchedRows(b)) = k
                  /\ 100 * k <= UnmatchedPercent * cfg.rps
                  /\ UnmatchedPercent * cfg.rps < 100 * (k + 1)
        /\ \A i \in 1..Len(UnmatchedRows(b)) :
              /\ ~LikeTrx(UnmatchedRows(b)[i].ref_id)
              /\ \A j \in 1..Len(transactions) :
                    UnmatchedRows(b)[i].ref_id # transactions[j].trx_id

\* A closed file with two unmatched rows behind a shorter slice
C7_Witness ==
    \E b \in Banks :
        /\ fstate[b] = "closed"
        /\ Len(UnmatchedRows(b)) = 2
        /\ Len(PartitionRows(b)) = 1
        /\ cfg.rps > 2 * (100 \div UnmatchedPercent)

\* C8: With ERROR_RATE = 0 every row written from a transaction is the
\* mirror: the else branch wrote it, its amount has two decimals and parses
\* to the transaction's amount, negative for a DEBIT and positive for a
\* CREDIT, and its date parses to the calendar date of the transaction.
C8_ZeroRateMirrors ==
    cfg.err = 0 =>
        \A row \in AllPartitionRows :
            /\ row.category = "MATCHED"
            /\ ParseAmount(row.amount).ok
            /\ ParseAmount(row.amount).cents
                 = SignedCents(row.tx.tx_type, row.tx.amount)
            /\ row.amount[Len(row.amount) - 2] = "."
            /\ ParseDate(row.date).ok
            /\ [year |-> ParseDate(row.date).year,
                month |-> ParseDate(row.date).month,
                day |-> ParseDate(row.date).day] = DateOfTime(row.tx.tx_time)

\* A DEBIT of 10.05 on 2024-02-29 mirrored with ERROR_RATE = 0
C8_Witness ==
    /\ cfg.err = 0
    /\ \E row \in AllPartitionRows :
          /\ row.tx.tx_type = "DEBIT"
          /\ row.tx.amount = 1005
          /\ row.amount = <<"-", "1", "0", ".", "0", "5">>
          /\ row.date = <<"2", "0", "2", "4", "-", "0", "2", "-", "2", "9">>

\* C9: With ERROR_RATE = 1 every row written from a transaction is written
\* by one of the four defect branches and is not the mirror of its
\* transaction: its amount or its date differs from the mirror's.
C9_FullRateNoMirror ==
    cfg.err = RandRes =>
        \A row \in AllPartitionRows :
            /\ row.category \in {"MALFORMED_AMOUNT", "MALFORMED_DATE",
                                 "MISSING_FIELD", "DISCREPANCY"}
            /\ \/ row.amount # MirrorRow(row.tx).amount
               \/ row.date # MirrorRow(row.tx).date

\* C10: Every row of the amount_discrepancy branch has an amount that parses
\* and a date that parses to the transaction's calendar date, and the amount
\* with the sign convention undone is within 100.00 of the transaction's.
C10_DiscrepancyRow ==
    \A row \in AllPartitionRows :
        row.category = "DISCREPANCY" =>
            /\ ParseAmount(row.amount).ok
            /\ ParseDate(row.date).ok
            /\ [year |-> ParseDate(row.date).year,
                month |-> ParseDate(row.date).month,
                day |-> ParseDate(row.date).day] = DateOfTime(row.tx.tx_time)
            /\ Abs(SignedCents(row.tx.tx_type, ParseAmount(row.amount).cents)
                     - row.tx.amount) <= MaxOffset \div 10

\* A DEBIT of 10.00 written with the offset -100.00: the amount -90.00 is
\* negated to 90.00
C10_Witness ==
    \E row \in AllPartitionRows :
        /\ row.category = "DISCREPANCY"
        /\ row.tx.tx_type = "DEBIT"
        /\ row.tx.amount = MinAmount
        /\ row.amount = <<"9", "0", ".", "0", "0">>

====
